---- MODULE Spec2Model ----
(***************************************************************************)
(* Annotations of the HIDL compiler front end (Annotation.cpp): the two    *)
(* parameter variants, their typed accessors, Annotation's lookup,         *)
(* evaluate/validate loops and dump rendering.                             *)
(*                                                                         *)
(* Text is a sequence of one-character strings, so that size(), operator[] *)
(* and substr() are computed as std::string computes them.                 *)
(***************************************************************************)
EXTENDS Integers, Sequences, FiniteSets, TLC

VARIABLES
    annotation,  \* the Annotation under analysis: [name, params]
    nodes,       \* the ConstantExpression nodes the parameters point to
    last         \* the last call made on the annotation and what it returned

vars == <<annotation, nodes, last>>

-----------------------------------------------------------------------------
(* Bounds of the explored inputs.                                          *)

\* the most parameters an annotation holds
MaxParams == 2
\* the most values one parameter holds
MaxValues == 2
\* the most values all the parameters of one annotation hold together
MaxTotalValues == 3

-----------------------------------------------------------------------------
(* Text helpers.                                                           *)

Q == "\""

Quoted(s) == <<Q>> \o s \o <<Q>>

SeqsUpTo(S, n) == UNION {[1..k -> S] : k \in 0..n}

RECURSIVE SumLen(_)
SumLen(ss) == IF ss = <<>> THEN 0 ELSE Len(Head(ss)) + SumLen(Tail(ss))

\* StringHelper::JoinStrings(values, separator)
RECURSIVE JoinStrings(_, _)
JoinStrings(values, sep) ==
    IF values = <<>> THEN <<>>
    ELSE IF Len(values) = 1 THEN values[1]
    ELSE values[1] \o sep \o JoinStrings(Tail(values), sep)

-----------------------------------------------------------------------------
(* status_t and the fatal CHECK failures.                                  *)

OK == "OK"
Status == {OK, "BAD_VALUE", "UNKNOWN_ERROR"}

Returned(v) == [ok |-> TRUE, value |-> v]
Fatal(e) == [ok |-> FALSE, error |-> e]

-----------------------------------------------------------------------------
(* ConstantExpression nodes (the expression subsystem).                    *)

\* a node is pointed to by its id, a text
NodeIds == {<<"m">>, <<"n">>}

\* ConstantExpression::value(): the folded text once the node is folded
NodeValue(n) == IF n.state = "folded" THEN n.folded ELSE n.expr

\* ConstantExpression::description()
NodeDescription(n) == n.description

\* what one call of ConstantExpression::evaluate() reports
NodeStatus(n) ==
    IF n.state = "folded" THEN OK
    ELSE IF n.state = "failed" THEN "EVALUATION_FAILURE"
    ELSE IF n.foldable THEN OK ELSE "EVALUATION_FAILURE"

\* a node that folds again on every call, its text growing each time
NodeEvaluateRefolding(n) ==
    IF n.foldable
    THEN [n EXCEPT !.state = "folded",
                   !.folded = IF n.state = "folded" THEN n.folded \o n.folded
                              ELSE n.folded]
    ELSE [n EXCEPT !.state = "failed"]

\* ConstantExpression::evaluate(): folds once and memoizes on the node
NodeEvaluate(n) ==
    IF n.state # "unevaluated" THEN n
    ELSE IF n.foldable THEN [n EXCEPT !.state = "folded"]
    ELSE [n EXCEPT !.state = "failed"]

-----------------------------------------------------------------------------
(* AnnotationParam and its variants.                                       *)

\* AnnotationParam::getName
GetName(param) == param.name

\* AnnotationParam::evaluate (the default)
AnnotationParamEvaluate == OK

\* AnnotationParam::validate (the default)
AnnotationParamValidate == OK

\* a conversion that leaves the description comment out
ConvertToStringBare(n) == NodeValue(n)

\* convertToString(const ConstantExpression*)
ConvertToString(n) ==
    NodeValue(n) \o <<" ", "/", "*", " ">> \o NodeDescription(n) \o <<" ", "*", "/">>

\* StringAnnotationParam::getValues
StringGetValues(param) == param.values

\* ConstantExpressionAnnotationParam::getValues
ConstantExpressionGetValues(param) ==
    [i \in 1..Len(param.values) |-> ConvertToString(nodes[param.values[i]])]

\* the virtual AnnotationParam::getValues
GetValues(param) ==
    IF param.kind = "ConstantExpression" THEN ConstantExpressionGetValues(param)
    ELSE StringGetValues(param)

\* a getSingleValue that takes the first value of any non-empty list
StringGetSingleValueFirst(param) ==
    IF Len(param.values) = 0 THEN Fatal("WrongArity")
    ELSE Returned(param.values[1])

\* StringAnnotationParam::getSingleValue
StringGetSingleValue(param) ==
    IF Len(param.values) # 1 THEN Fatal("WrongArity")
    ELSE Returned(param.values[1])

\* ConstantExpressionAnnotationParam::getSingleValue
ConstantExpressionGetSingleValue(param) ==
    IF Len(param.values) # 1 THEN Fatal("WrongArity")
    ELSE Returned(ConvertToString(nodes[param.values[1]]))

\* the virtual AnnotationParam::getSingleValue
GetSingleValue(param) ==
    IF param.kind = "ConstantExpression" THEN ConstantExpressionGetSingleValue(param)
    ELSE StringGetSingleValue(param)

\* a getSingleString that checks the opening quote only
GetSingleStringOpenQuoteOnly(param) ==
    LET single == GetSingleValue(param) IN
    IF ~single.ok THEN single
    ELSE LET value == single.value IN
         IF ~(Len(value) >= 2 /\ value[1] = Q)
         THEN Fatal("TypeMismatch")
         ELSE Returned(SubSeq(value, 2, Len(value) - 1))

\* AnnotationParam::getSingleString
GetSingleString(param) ==
    LET single == GetSingleValue(param) IN
    IF ~single.ok THEN single
    ELSE LET value == single.value IN
         IF ~(Len(value) >= 2 /\ value[1] = Q /\ value[Len(value)] = Q)
         THEN Fatal("TypeMismatch")
         ELSE Returned(SubSeq(value, 2, Len(value) - 1))

\* a getSingleBool that takes everything but "true" for false
GetSingleBoolLenient(param) ==
    LET single == GetSingleString(param) IN
    IF ~single.ok THEN single
    ELSE Returned(single.value = <<"t", "r", "u", "e">>)

\* AnnotationParam::getSingleBool
GetSingleBool(param) ==
    LET single == GetSingleString(param) IN
    IF ~single.ok THEN single
    ELSE IF single.value = <<"t", "r", "u", "e">> THEN Returned(TRUE)
    ELSE IF single.value = <<"f", "a", "l", "s", "e">> THEN Returned(FALSE)
    ELSE Fatal("TypeMismatch")

-----------------------------------------------------------------------------
(* The virtual evaluate() and validate() of a parameter.  Besides the two  *)
(* variants of Annotation.cpp, "Extension" stands for a subclass that      *)
(* overrides both and returns the status it was built with.                *)

\* a loop that skips the nodes an earlier reference has already evaluated
RECURSIVE EvaluateValuesOnce(_, _, _)
EvaluateValuesOnce(values, i, acc) ==
    IF i > Len(values) THEN acc
    ELSE LET id == values[i] IN
         IF acc.nodes[id].state # "unevaluated"
         THEN EvaluateValuesOnce(values, i + 1, acc)
         ELSE EvaluateValuesOnce(values, i + 1,
                 [nodes |-> [acc.nodes EXCEPT ![id] = NodeEvaluate(@)],
                  calls |-> Append(acc.calls,
                                   [node |-> id, status |-> NodeStatus(acc.nodes[id])])])

\* the loop of ConstantExpressionAnnotationParam::evaluate, from value i on:
\* acc.nodes are the nodes so far, acc.calls the evaluate() calls made so far
RECURSIVE EvaluateValues(_, _, _)
EvaluateValues(values, i, acc) ==
    IF i > Len(values) THEN acc
    ELSE LET id == values[i] IN
         EvaluateValues(values, i + 1,
             [nodes |-> [acc.nodes EXCEPT ![id] = NodeEvaluate(@)],
              calls |-> Append(acc.calls,
                               [node |-> id, status |-> NodeStatus(acc.nodes[id])])])

\* ConstantExpressionAnnotationParam::evaluate
ConstantExpressionEvaluate(param, ns) ==
    LET done == EvaluateValues(param.values, 1, [nodes |-> ns, calls |-> <<>>])
    IN  [err |-> AnnotationParamEvaluate, nodes |-> done.nodes, calls |-> done.calls]

\* param->evaluate()
ParamEvaluate(param, ns) ==
    IF param.kind = "ConstantExpression" THEN ConstantExpressionEvaluate(param, ns)
    ELSE IF param.kind = "Extension"
         THEN [err |-> param.onEvaluate, nodes |-> ns, calls |-> <<>>]
    ELSE [err |-> AnnotationParamEvaluate, nodes |-> ns, calls |-> <<>>]

\* param->validate()
ParamValidate(param) ==
    IF param.kind = "Extension" THEN param.onValidate
    ELSE AnnotationParamValidate

-----------------------------------------------------------------------------
(* Annotation.                                                             *)

\* nullptr, as the index of no parameter
NullParam == 0

\* a lookup in which a later match replaces an earlier one
RECURSIVE GetParamLast(_, _, _)
GetParamLast(params, name, i) ==
    IF i > Len(params) THEN NullParam
    ELSE LET later == GetParamLast(params, name, i + 1) IN
         IF later # NullParam THEN later
         ELSE IF GetName(params[i]) = name THEN i
         ELSE NullParam

\* the loop of Annotation::getParam from parameter i on; a parameter is
\* returned as its index
RECURSIVE GetParamFrom(_, _, _)
GetParamFrom(params, name, i) ==
    IF i > Len(params) THEN NullParam
    ELSE IF GetName(params[i]) = name THEN i
    ELSE GetParamFrom(params, name, i + 1)

\* Annotation::getParam
GetParam(a, name) == GetParamFrom(a.params, name, 1)

\* an evaluate loop that goes on after a failure and returns the last one
RECURSIVE EvaluateParamsKeepGoing(_, _, _)
EvaluateParamsKeepGoing(params, i, acc) ==
    IF i > Len(params) THEN acc
    ELSE LET r == ParamEvaluate(params[i], acc.nodes) IN
         EvaluateParamsKeepGoing(params, i + 1,
             [err     |-> IF r.err # OK THEN r.err ELSE acc.err,
              nodes   |-> r.nodes,
              visited |-> Append(acc.visited, i),
              calls   |-> acc.calls \o r.calls])

\* the loop of Annotation::evaluate from parameter i on: acc.visited are the
\* parameters evaluated so far, acc.calls the node evaluate() calls so far
RECURSIVE EvaluateParams(_, _, _)
EvaluateParams(params, i, acc) ==
    IF i > Len(params) THEN [acc EXCEPT !.err = OK]
    ELSE LET r == ParamEvaluate(params[i], acc.nodes)
             step == [err     |-> r.err,
                      nodes   |-> r.nodes,
                      visited |-> Append(acc.visited, i),
                      calls   |-> acc.calls \o r.calls]
         IN  IF r.err # OK THEN step
             ELSE EvaluateParams(params, i + 1, step)

\* Annotation::evaluate
AnnotationEvaluate(a, ns) ==
    EvaluateParams(a.params, 1,
                   [err |-> OK, nodes |-> ns, visited |-> <<>>, calls |-> <<>>])

\* the loop of Annotation::validate from parameter i on
RECURSIVE ValidateParams(_, _, _)
ValidateParams(params, i, acc) ==
    IF i > Len(params) THEN [acc EXCEPT !.err = OK]
    ELSE LET err == ParamValidate(params[i])
             step == [err |-> err, visited |-> Append(acc.visited, i)]
         IN  IF err # OK THEN step
             ELSE ValidateParams(params, i + 1, step)

\* Annotation::validate
AnnotationValidate(a) ==
    ValidateParams(a.params, 1, [err |-> OK, visited |-> <<>>])

\* a rendering that wraps by variant: ConstantExpression values in braces
DumpValuesByKind(param) ==
    LET values == GetValues(param) IN
    (IF param.kind = "ConstantExpression" THEN <<"{">> ELSE <<>>)
    \o JoinStrings(values, <<",", " ">>)
    \o (IF param.kind = "ConstantExpression" THEN <<"}">> ELSE <<>>)

\* what Annotation::dump writes after "key=": lines 161 to 170
DumpValues(param) ==
    LET values == GetValues(param) IN
    (IF Len(values) > 1 THEN <<"{">> ELSE <<>>)
    \o JoinStrings(values, <<",", " ">>)
    \o (IF Len(values) > 1 THEN <<"}">> ELSE <<>>)

\* the loop of Annotation::dump from parameter i on (i counts from 1)
RECURSIVE DumpParams(_, _)
DumpParams(params, i) ==
    IF i > Len(params) THEN <<>>
    ELSE (IF i > 1 THEN <<",", " ">> ELSE <<>>)
         \o GetName(params[i]) \o <<"=">>
         \o DumpValues(params[i])
         \o DumpParams(params, i + 1)

\* Annotation::dump: the text written to the Formatter
Dump(a) ==
    <<"@">> \o a.name
    \o (IF Len(a.params) = 0 THEN <<>>
        ELSE <<"(">> \o DumpParams(a.params, 1) \o <<")">>)

-----------------------------------------------------------------------------
(* The trees the parser builds.                                            *)

Names == {<<"a">>, <<"b">>}

\* the names looked up: those in use and one no parameter has
LookupNames == Names \cup {<<"c">>}

AnnotationNames == {<<"t">>}

\* literals of parameters in annotations of several parameters
TreeLiterals == {<<"x">>, Quoted(<<"y">>)}

\* literals of a parameter on its own: quoted and unquoted, booleans and
\* near-booleans, the empty text, a lone quote, quotes inside and at one end
Literals ==
    {<<>>, <<Q>>, <<Q, Q>>,
     Quoted(<<"t", "r", "u", "e">>), Quoted(<<"f", "a", "l", "s", "e">>),
     Quoted(<<"T", "r", "u", "e">>), Quoted(<<"1">>),
     Quoted(<<" ", "t", "r", "u", "e", " ">>),
     <<"t", "r", "u", "e">>, <<"a", "b", "c">>,
     Quoted(<<"a", Q, "b">>), <<Q, "a">>, <<"a", Q>>}

StringParams(names, literals) ==
    [kind : {"String"}, name : names, values : SeqsUpTo(literals, MaxValues)]

ConstantExpressionParams(names) ==
    [kind : {"ConstantExpression"}, name : names, values : SeqsUpTo(NodeIds, MaxValues)]

ExtensionParams(names) ==
    [kind : {"Extension"}, name : names, values : {<<>>},
     onEvaluate : Status, onValidate : Status]

TotalValues(params) == SumLen([i \in 1..Len(params) |-> params[i].values])

Trees(universe) ==
    {params \in SeqsUpTo(universe, MaxParams) : TotalValues(params) <= MaxTotalValues}

\* a node as the parser leaves it
Node(expr, folded, description, foldable) ==
    [expr |-> expr, folded |-> folded, description |-> description,
     foldable |-> foldable, state |-> "unevaluated"]

\* 1 + 1 folds to 2, 1 / 0 does not fold
ArithmeticNodes ==
    (<<"m">> :> Node(<<"1", "+", "1">>, <<"2">>, <<"1", "+", "1">>, TRUE))
    @@ (<<"n">> :> Node(<<"1", "/", "0">>, <<>>, <<"1", "/", "0">>, FALSE))

\* nodes whose texts are themselves quoted literals or end in a quote
QuotedNodes ==
    {(<<"m">> :> Node(Quoted(<<"e">>), folded, description, TRUE))
     @@ (<<"n">> :> Node(<<Q>>, <<>>, <<Q>>, FALSE)) :
        folded \in {Quoted(<<"t", "r", "u", "e">>), <<Q>>},
        description \in {<<>>, <<Q>>, <<"x", Q>>}}

NoCall == [op |-> "none", arg |-> NullParam, ret |-> OK, visited |-> <<>>, calls |-> <<>>]

-----------------------------------------------------------------------------
(* Initial states: the tree after parsing, nothing evaluated.              *)

\* annotations of String and ConstantExpression parameters
Init ==
    /\ annotation \in [name : AnnotationNames,
                       params : Trees(StringParams(Names, TreeLiterals)
                                      \cup ConstantExpressionParams(Names))]
    /\ nodes = ArithmeticNodes
    /\ last = NoCall

\* annotations of one parameter, over the full set of literals
InitParam ==
    /\ \/ /\ annotation \in [name : AnnotationNames,
                             params : {<<p>> : p \in StringParams({<<"a">>}, Literals)}]
          /\ nodes = ArithmeticNodes
       \/ /\ annotation \in [name : AnnotationNames,
                             params : {<<p>> : p \in ConstantExpressionParams({<<"a">>})}]
          /\ nodes \in QuotedNodes
    /\ last = NoCall

\* annotations whose parameters evaluate nodes or are extensions
InitEval ==
    /\ annotation \in [name : AnnotationNames,
                       params : Trees(ConstantExpressionParams({<<"a">>})
                                      \cup ExtensionParams({<<"a">>})
                                      \cup StringParams({<<"a">>}, {}))]
    /\ nodes = ArithmeticNodes
    /\ last = NoCall

-----------------------------------------------------------------------------
(* The calls.  A fatal CHECK failure aborts the process: nothing follows.  *)

Aborted == last.op \in {"getSingleValue", "getSingleString", "getSingleBool"}
           /\ ~last.ret.ok

Call(op, arg, ret) ==
    [op |-> op, arg |-> arg, ret |-> ret, visited |-> <<>>, calls |-> <<>>]

Evaluate ==
    /\ ~Aborted
    /\ LET r == AnnotationEvaluate(annotation, nodes) IN
       /\ nodes' = r.nodes
       /\ last' = [op |-> "evaluate", arg |-> NullParam, ret |-> r.err,
                   visited |-> r.visited, calls |-> r.calls]
    /\ UNCHANGED annotation

Validate ==
    /\ ~Aborted
    /\ LET r == AnnotationValidate(annotation) IN
       last' = [op |-> "validate", arg |-> NullParam, ret |-> r.err,
                visited |-> r.visited, calls |-> <<>>]
    /\ UNCHANGED <<annotation, nodes>>

GetParamCall ==
    /\ ~Aborted
    /\ \E name \in LookupNames :
          last' = Call("getParam", name, GetParam(annotation, name))
    /\ UNCHANGED <<annotation, nodes>>

DumpCall ==
    /\ ~Aborted
    /\ last' = Call("dump", NullParam, Dump(annotation))
    /\ UNCHANGED <<annotation, nodes>>

GetValuesCall ==
    /\ ~Aborted
    /\ \E i \in 1..Len(annotation.params) :
          last' = Call("getValues", i, GetValues(annotation.params[i]))
    /\ UNCHANGED <<annotation, nodes>>

GetSingleValueCall ==
    /\ ~Aborted
    /\ \E i \in 1..Len(annotation.params) :
          last' = Call("getSingleValue", i, GetSingleValue(annotation.params[i]))
    /\ UNCHANGED <<annotation, nodes>>

GetSingleStringCall ==
    /\ ~Aborted
    /\ \E i \in 1..Len(annotation.params) :
          last' = Call("getSingleString", i, GetSingleString(annotation.params[i]))
    /\ UNCHANGED <<annotation, nodes>>

GetSingleBoolCall ==
    /\ ~Aborted
    /\ \E i \in 1..Len(annotation.params) :
          last' = Call("getSingleBool", i, GetSingleBool(annotation.params[i]))
    /\ UNCHANGED <<annotation, nodes>>

ParamEvaluateCall ==
    /\ ~Aborted
    /\ \E i \in 1..Len(annotation.params) :
          LET r == ParamEvaluate(annotation.params[i], nodes) IN
          /\ nodes' = r.nodes
          /\ last' = [op |-> "paramEvaluate", arg |-> i, ret |-> r.err,
                      visited |-> <<>>, calls |-> r.calls]
    /\ UNCHANGED annotation

ParamValidateCall ==
    /\ ~Aborted
    /\ \E i \in 1..Len(annotation.params) :
          last' = Call("paramValidate", i, ParamValidate(annotation.params[i]))
    /\ UNCHANGED <<annotation, nodes>>

\* evaluation, then the queries on an Annotation
Next ==
    \/ Evaluate
    \/ GetParamCall
    \/ DumpCall

\* the calls on an AnnotationParam
NextParam ==
    \/ GetValuesCall
    \/ GetSingleValueCall
    \/ GetSingleStringCall
    \/ GetSingleBoolCall
    \/ ParamEvaluateCall
    \/ ParamValidateCall

\* the evaluate and validate calls, on the annotation and on its parameters
NextEval ==
    \/ Evaluate
    \/ Validate
    \/ ParamEvaluateCall
    \/ ParamValidateCall

Spec == Init /\ [][Next]_vars

SpecParam == InitParam /\ [][NextParam]_vars

SpecEval == InitEval /\ [][NextEval]_vars

-----------------------------------------------------------------------------
(* Claims.                                                                 *)

Params == annotation.params

IsStringOrConstant(param) == param.kind \in {"String", "ConstantExpression"}

Count(text, ch) == Cardinality({k \in 1..Len(text) : text[k] = ch})

\* one parameter as the dump grammar renders it
Rendered(param) ==
    LET values == GetValues(param) IN
    GetName(param) \o <<"=">>
    \o (IF Len(values) = 1 THEN values[1]
        ELSE <<"{">> \o JoinStrings(values, <<",", " ">>) \o <<"}">>)

DumpGrammar(a) ==
    IF Len(a.params) = 0 THEN <<"@">> \o a.name
    ELSE <<"@">> \o a.name \o <<"(">>
         \o JoinStrings([i \in 1..Len(a.params) |-> Rendered(a.params[i])], <<",", " ">>)
         \o <<")">>

\* C1: dump writes "@" + name for no parameters; otherwise "@" + name + "(",
\* the parameters in declaration order separated by ", ", each key=value for
\* one value and key={v1, v2, ...} for more than one, then ")".  Braces
\* appear exactly for the parameters of more than one value, whatever the
\* variant (no text of the explored trees holds a brace of its own).
C1_DumpFollowsGrammar ==
    last.op = "dump" =>
        /\ Len(Params) = 0 => last.ret = <<"@">> \o annotation.name
        /\ (\A i \in 1..Len(Params) : Len(Params[i].values) >= 1)
               => last.ret = DumpGrammar(annotation)
        /\ Count(last.ret, "{") = Cardinality({i \in 1..Len(Params) : Len(Params[i].values) > 1})
        /\ Count(last.ret, "}") = Count(last.ret, "{")

\* a String parameter of two values before a ConstantExpression parameter of one
C1_Witness ==
    /\ last.op = "dump"
    /\ Len(Params) = 2
    /\ Params[1].kind = "String" /\ Len(Params[1].values) = 2
    /\ Params[2].kind = "ConstantExpression" /\ Len(Params[2].values) = 1
    /\ Params[1].values[1] # Params[1].values[2]
    /\ Params[1].name # Params[2].name

\* C4: getParam returns the parameter of the lowest index whose name is the
\* one asked for, and nullptr exactly when no parameter has that name.
C4_GetParamFirstMatch ==
    last.op = "getParam" =>
        LET matches == {i \in 1..Len(Params) : Params[i].name = last.arg} IN
        /\ (last.ret = NullParam) <=> (matches = {})
        /\ matches # {} =>
              /\ last.ret \in matches
              /\ \A j \in matches : last.ret <= j

\* two parameters of the name asked for, of different content
C4_Witness ==
    /\ last.op = "getParam"
    /\ Len(Params) = 2
    /\ Params[1].name = last.arg /\ Params[2].name = last.arg
    /\ Params[1] # Params[2]
    /\ last.ret = 1

\* the parameter the last call was made on
Param == Params[last.arg]

TrueText == <<"t", "r", "u", "e">>
FalseText == <<"f", "a", "l", "s", "e">>

\* the one stored value of a parameter, as its variant presents it
StoredValue(param) ==
    IF param.kind = "ConstantExpression"
    THEN NodeValue(nodes[param.values[1]]) \o <<" ", "/", "*", " ">>
         \o NodeDescription(nodes[param.values[1]]) \o <<" ", "*", "/">>
    ELSE param.values[1]

IsQuotedLiteral(text) == Len(text) >= 2 /\ Head(text) = Q /\ text[Len(text)] = Q

\* text without its first and its last character
Unquoted(text) == [k \in 1..(Len(text) - 2) |-> text[k + 1]]

\* C5: for both variants getSingleValue fails, as a wrong arity, whenever the
\* number of stored values is not exactly 1 (0 included), and returns the one
\* value when it is: the literal, or the formatted node.
C5_SingleValueArity ==
    last.op = "getSingleValue" =>
        /\ Len(Param.values) # 1 => last.ret = Fatal("WrongArity")
        /\ Len(Param.values) = 1 => last.ret = Returned(StoredValue(Param))

\* getSingleValue has aborted on a String parameter of two values
C5_Witness ==
    /\ last.op = "getSingleValue"
    /\ Param.kind = "String"
    /\ Len(Param.values) = 2
    /\ ~last.ret.ok

\* C6: getSingleString succeeds exactly when getSingleValue succeeds with a
\* text of length >= 2 that begins and ends with a double quote; it then
\* returns that text without its first and last characters; when the single
\* value is anything else it fails as a type mismatch, and when there is no
\* single value it fails as getSingleValue does.
C6_SingleStringUnquotes ==
    last.op = "getSingleString" =>
        LET single == Len(Param.values) = 1 IN
        /\ last.ret.ok <=> (single /\ IsQuotedLiteral(StoredValue(Param)))
        /\ last.ret.ok => last.ret.value = Unquoted(StoredValue(Param))
        /\ (single /\ ~IsQuotedLiteral(StoredValue(Param)))
               => last.ret = Fatal("TypeMismatch")
        /\ ~single => last.ret = Fatal("WrongArity")

\* the two-character literal "" has been unquoted to the empty text
C6_Witness ==
    /\ last.op = "getSingleString"
    /\ Param.values = << <<Q, Q>> >>
    /\ last.ret = Returned(<<>>)

\* C7: getSingleBool returns true exactly for the unquoted text true, false
\* exactly for false, fails as a type mismatch for every other unquoted text,
\* and returns no boolean when getSingleString rejects the value.
C7_SingleBoolExact ==
    last.op = "getSingleBool" =>
        LET accepted == Len(Param.values) = 1 /\ IsQuotedLiteral(StoredValue(Param))
            text == Unquoted(StoredValue(Param))
        IN  /\ ~accepted => ~last.ret.ok
            /\ (accepted /\ text = TrueText) => last.ret = Returned(TRUE)
            /\ (accepted /\ text = FalseText) => last.ret = Returned(FALSE)
            /\ (accepted /\ text \notin {TrueText, FalseText})
                   => last.ret = Fatal("TypeMismatch")

\* the literal "True" has been rejected
C7_Witness ==
    /\ last.op = "getSingleBool"
    /\ Param.values = << Quoted(<<"T", "r", "u", "e">>) >>
    /\ last.ret = Fatal("TypeMismatch")

\* C10: on a ConstantExpression parameter getSingleString and getSingleBool
\* never succeed, evaluated or not: every formatted value ends in "/", so
\* the single value is no quoted literal (or the arity check fails first).
C10_ConstantExpressionNeverString ==
    /\ (last.op \in {"getSingleString", "getSingleBool"}
        /\ Param.kind = "ConstantExpression")
           => /\ ~last.ret.ok
              /\ last.ret.error =
                    (IF Len(Param.values) = 1 THEN "TypeMismatch" ELSE "WrongArity")
    /\ (last.op = "getValues" /\ Param.kind = "ConstantExpression")
           => \A k \in 1..Len(last.ret) : last.ret[k][Len(last.ret[k])] = "/"
    /\ (last.op \in {"getSingleString", "getSingleBool"} /\ last.ret.ok)
           => Param.kind = "String"

\* getSingleBool has been refused on a folded node whose value is "true"
C10_Witness ==
    /\ last.op = "getSingleBool"
    /\ Param.kind = "ConstantExpression"
    /\ Len(Param.values) = 1
    /\ nodes[Param.values[1]].state = "folded"
    /\ NodeValue(nodes[Param.values[1]]) = Quoted(TrueText)
    /\ last.ret = Fatal("TypeMismatch")

\* the status each parameter returns from evaluate() / from validate()
EvaluateStatuses ==
    [i \in 1..Len(Params) |->
        IF Params[i].kind = "Extension" THEN Params[i].onEvaluate ELSE OK]

ValidateStatuses ==
    [i \in 1..Len(Params) |->
        IF Params[i].kind = "Extension" THEN Params[i].onValidate ELSE OK]

\* a loop over statuses that stops at the first failure: what it visits and returns
FailFast(visited, ret, statuses) ==
    LET failing == {i \in 1..Len(statuses) : statuses[i] # OK} IN
    IF failing = {}
    THEN /\ visited = [i \in 1..Len(statuses) |-> i]
         /\ ret = OK
    ELSE LET first == CHOOSE i \in failing : \A j \in failing : i <= j IN
         /\ visited = [i \in 1..first |-> i]
         /\ ret = statuses[first]

\* C2: Annotation.evaluate() and Annotation.validate() visit the parameters in
\* declaration order and stop at the first whose evaluate()/validate() fails:
\* that failure is returned, no later parameter is visited (and no node of a
\* later parameter evaluated), and OK is returned only when all returned OK.
C2_FailFast ==
    /\ last.op = "evaluate" =>
          /\ FailFast(last.visited, last.ret, EvaluateStatuses)
          /\ Len(last.calls) = SumLen([k \in 1..Len(last.visited) |->
                  IF Params[last.visited[k]].kind = "ConstantExpression"
                  THEN Params[last.visited[k]].values ELSE <<>>])
    /\ last.op = "validate" =>
          FailFast(last.visited, last.ret, ValidateStatuses)

\* evaluate() has returned the failure of the first parameter; the second,
\* which holds nodes or fails differently, was not evaluated
C2_Witness ==
    /\ last.op = "evaluate"
    /\ Len(Params) = 2
    /\ Params[1].kind = "Extension" /\ Params[1].onEvaluate # OK
    /\ \/ Params[2].kind = "ConstantExpression" /\ Len(Params[2].values) > 0
       \/ Params[2].kind = "Extension" /\ Params[2].onEvaluate \notin {OK, Params[1].onEvaluate}
    /\ last.ret = Params[1].onEvaluate
    /\ last.visited = <<1>>

\* C3: ConstantExpressionAnnotationParam.evaluate() evaluates every node and,
\* when the evaluation of a node fails, returns the first such failure
\* instead of success.
C3_PropagatesNodeFailure ==
    (last.op = "paramEvaluate" /\ Param.kind = "ConstantExpression") =>
        LET failed == {k \in 1..Len(last.calls) : last.calls[k].status # OK} IN
        /\ [k \in 1..Len(last.calls) |-> last.calls[k].node] = Param.values
        /\ failed = {} => last.ret = OK
        /\ failed # {} =>
              last.ret = last.calls[CHOOSE k \in failed : \A j \in failed : k <= j].status

\* C8: evaluation is idempotent at the node level: a call that evaluates a
\* node already evaluated leaves the node as it was and reports what the
\* node's first evaluation reported, and evaluate() changes nothing else.
C8_NodeEvaluationIdempotent ==
    [][/\ annotation' = annotation
       /\ \A id \in NodeIds :
             /\ nodes[id].state # "unevaluated" => nodes'[id] = nodes[id]
             /\ \A k \in 1..Len(last'.calls) :
                   last'.calls[k].node = id =>
                      /\ nodes'[id].state # "unevaluated"
                      /\ last'.calls[k].status =
                            (IF nodes'[id].state = "folded" THEN OK
                             ELSE "EVALUATION_FAILURE")
             /\ [nodes'[id] EXCEPT !.state = "unevaluated"]
                   = [nodes[id] EXCEPT !.state = "unevaluated"]
      ]_vars

\* one node has been evaluated twice by one evaluate(): two parameters, or
\* two values of one parameter, point to it
C8_Witness ==
    /\ last.op = "evaluate"
    /\ \E j, k \in 1..Len(last.calls) :
          /\ j < k
          /\ last.calls[j].node = last.calls[k].node
          /\ nodes[last.calls[k].node].state = "folded"
    /\ \E i, j \in 1..Len(Params) :
          /\ i < j
          /\ Params[i].kind = "ConstantExpression"
          /\ Params[j].kind = "ConstantExpression"
          /\ \E v \in NodeIds :
                /\ \E k \in 1..Len(Params[i].values) : Params[i].values[k] = v
                /\ \E k \in 1..Len(Params[j].values) : Params[j].values[k] = v

\* the nodes of the ConstantExpression parameters from parameter i on, one
\* entry per reference
RECURSIVE References(_)
References(i) ==
    IF i > Len(Params) THEN <<>>
    ELSE (IF Params[i].kind = "ConstantExpression" THEN Params[i].values ELSE <<>>)
         \o References(i + 1)

\* C9: with only String and ConstantExpression parameters, evaluate() and
\* validate() return OK and visit every parameter, and evaluate() calls
\* evaluate on every node of every ConstantExpression parameter, in
\* declaration order and value order, once per reference.
C9_DefinedVariantsAlwaysOk ==
    (\A i \in 1..Len(Params) : IsStringOrConstant(Params[i])) =>
        /\ last.op \in {"evaluate", "validate"} =>
              /\ last.ret = OK
              /\ last.visited = [i \in 1..Len(Params) |-> i]
        /\ last.op = "evaluate" =>
              [k \in 1..Len(last.calls) |-> last.calls[k].node] = References(1)
        /\ last.op \in {"paramEvaluate", "paramValidate"} => last.ret = OK

\* evaluate() has returned OK after three calls, the first and the third on
\* one node, which does not fold
C9_Witness ==
    /\ \A i \in 1..Len(Params) : IsStringOrConstant(Params[i])
    /\ last.op = "evaluate"
    /\ last.ret = OK
    /\ Len(Params) = 2
    /\ Len(last.calls) = 3
    /\ last.calls[1].node = last.calls[3].node
    /\ last.calls[1].node # last.calls[2].node
    /\ last.calls[1].status # OK

====
